---- MODULE Spec2Model ----
(***************************************************************************)
(* APA102 LED driver (apa102.h / apa102.c): the byte stream the driver     *)
(* puts on the SPI bus.  One step of the model is one spi_transfer or one  *)
(* loop test of the driver; the caller (main) issues the public calls.     *)
(***************************************************************************)
EXTENDS Integers, Sequences, FiniteSets, TLC

VARIABLES
    number_of_leds,   \* APA102_NUMBER_OF_LEDS of this build
    frame_size,       \* APA102_FRAME_SIZE of this build
    power_saving,     \* APA102_POWER_SAVING_AVAILABLE defined or not
    palette,          \* the colors the caller passes to the driver
    task,             \* per task: the driver call in progress (its C frame)
    bus,              \* the bytes handed to spi_transfer since the bus was last quiet
    cur,              \* per task: the caller statement in progress or just completed
    ref,              \* an earlier completed single-call statement, kept for comparison
    window            \* per task: caller sent APA102_SOF() and not yet APA102_EOF()

vars == <<number_of_leds, frame_size, power_saving, palette,
          task, bus, cur, ref, window>>

config == <<number_of_leds, frame_size, power_saving, palette>>

----------------------------------------------------------------------------
(* Bounds of the model *)

MaxLeds == 3
MaxFrameSize == 4
MaxTaskFrame == 1

\* bytes followed on the bus of the long chain
MaxRecord == 1040

(* Configuration macros of apa102.h (defaults) *)

APA102_NUMBER_OF_LEDS == 1
APA102_FRAME_SIZE == 4
APA102_START_FLAG == 224
APA102_SOF_VALUE == 0
APA102_EOF_VALUE == 255
APA102_MIN_INTENSITY == 1
APA102_MAX_INTENSITY == 31
APA102_ENABLE_FLAG == 224
APA102_SLEEP_FLAG == 160

\* the 0x3F literal of apa102_led / apa102_leds
LedFlagMask == 63

\* unsigned char arithmetic is modulo 2^8
UCharMod == 256

\* bytes of one command frame sent by apa102_frame
FrameBytes == 4

Main == 1
Tasks == {1, 2}

----------------------------------------------------------------------------
(* C operators on unsigned char *)

RECURSIVE BitAnd(_, _)
BitAnd(a, b) ==
    IF a = 0 \/ b = 0 THEN 0
    ELSE (a % 2) * (b % 2) + 2 * BitAnd(a \div 2, b \div 2)

RECURSIVE BitOr(_, _)
BitOr(a, b) ==
    IF a = 0 THEN b
    ELSE IF b = 0 THEN a
    ELSE (IF a % 2 = 1 \/ b % 2 = 1 THEN 1 ELSE 0) + 2 * BitOr(a \div 2, b \div 2)

(* GFX_RGBA_Color: positional initializer {red, green, blue, alpha} *)

GFX_RGBA_Color(a, b, c, d) == [red |-> a, green |-> b, blue |-> c, alpha |-> d]

\* a call without color argument
NoColor == [red |-> -1, green |-> -1, blue |-> -1, alpha |-> -1]


\* the colors main passes: the color {0x10,0x20,0x30,0x05} and the README's color
Colors == { GFX_RGBA_Color(16, 32, 48, 5), GFX_RGBA_Color(15, 240, 255, 31) }

----------------------------------------------------------------------------
(* apa102_frame: the four bytes of one command frame *)

\* faulty variant: & written for |
frame_temp_and(flag, color) ==
    BitAnd(flag, BitAnd(color.alpha, APA102_MAX_INTENSITY)) % UCharMod

\* faulty variant: flag and intensity added instead of ORed
frame_temp_plus(flag, color) ==
    (flag + BitAnd(color.alpha, APA102_MAX_INTENSITY)) % UCharMod

frame_temp(flag, color) ==
    BitOr(flag, BitAnd(color.alpha, APA102_MAX_INTENSITY)) % UCharMod

\* faulty variant: the color bytes sent red, green, blue
frame_bytes_rgb(flag, color) ==
    << frame_temp(flag, color), color.red, color.green, color.blue >>

frame_bytes(flag, color) ==
    << frame_temp(flag, color), color.blue, color.green, color.red >>

(* arguments the public functions hand to apa102_frame *)

init_color == GFX_RGBA_Color(APA102_MIN_INTENSITY, 0, 0, 0)

\* faulty variant: the intensity added to the flag, unmasked
led_flag_add(color) == (APA102_ENABLE_FLAG + color.alpha) % UCharMod

led_flag(color) == BitOr(APA102_ENABLE_FLAG, BitAnd(LedFlagMask, color.alpha))

led_off_flag == IF power_saving THEN APA102_SLEEP_FLAG ELSE APA102_START_FLAG

led_off_color == GFX_RGBA_Color(APA102_MIN_INTENSITY, 0, 0, 0)

\* faulty variant: both delimiters send the start marker
xof_type_sof(pc) == APA102_SOF_VALUE

\* the value apa102_xof repeats: APA102_Transmission_SOF or _EOF
xof_type(pc) == IF pc = "sof" THEN APA102_SOF_VALUE ELSE APA102_EOF_VALUE

\* faulty variant: the loop counter is static and keeps its value between calls
loop_init_static(i) == i

\* initialisation of the for loops: unsigned char i=0
loop_init(i) == 0

\* faulty variant: the slot loop runs once more
led_continue_le(i) == i <= number_of_leds

\* faulty variant: the delimiter loop runs once more
xof_continue_le(x) == x <= frame_size

\* loop test of apa102_xof
xof_continue(x) == x < frame_size

\* loop test of apa102_init, apa102_leds, apa102_leds_off
led_continue(i) == i < number_of_leds

\* faulty variant: apa102_leds_off sends the frame of apa102_init instead of
\* calling apa102_led_off
slot_frame_enable(fn, color) ==
    CASE fn = "apa102_init" -> [flag |-> APA102_ENABLE_FLAG, color |-> init_color]
      [] fn = "apa102_leds" -> [flag |-> led_flag(color), color |-> color]
      [] fn = "apa102_leds_off" -> [flag |-> APA102_ENABLE_FLAG, color |-> init_color]

\* flag and color of the frame sent for one slot of a whole-chain function
slot_frame(fn, color) ==
    CASE fn = "apa102_init" -> [flag |-> APA102_ENABLE_FLAG, color |-> init_color]
      [] fn = "apa102_leds" -> [flag |-> led_flag(color), color |-> color]
      [] fn = "apa102_leds_off" -> [flag |-> led_off_flag, color |-> led_off_color]

----------------------------------------------------------------------------
(* State *)

IdleTask == [pc |-> "idle", fn |-> "none", color |-> NoColor,
             flag |-> 0, fcolor |-> NoColor, i |-> 0, x |-> 0, k |-> 0]

NoStatement == [ops |-> <<>>, out |-> <<>>]

Signature(fn, color) == [fn |-> fn, color |-> color]

\* no task is inside a driver call or an open SOF/EOF window
Quiet == \A u \in Tasks : task[u].pc = "idle" /\ ~window[u]

\* slots main has sent in its open window
slots(t) == Len(cur[t].ops) - 1

InitConfig(leds, sizes, saving, palettes) ==
    /\ number_of_leds \in leds
    /\ frame_size \in sizes
    /\ power_saving \in saving
    /\ palette \in palettes

InitState ==
    /\ task = [t \in Tasks |-> IdleTask]
    /\ bus = <<>>
    /\ cur = [t \in Tasks |-> NoStatement]
    /\ ref = NoStatement
    /\ window = [t \in Tasks |-> FALSE]

Init ==
    /\ InitConfig(1..MaxLeds, 1..MaxFrameSize, BOOLEAN, {Colors})
    /\ InitState

----------------------------------------------------------------------------
(* spi_transfer: one byte on the bus *)

spi_transfer(t, byte) ==
    /\ bus' = Append(bus, byte)
    /\ cur' = [cur EXCEPT ![t].out = Append(@, byte)]

\* faulty variant: the driver takes a lock that one call at a time can hold
may_enter_locked(t) == \A u \in Tasks : task[u].pc = "idle"

\* a task that is not inside a driver call may enter one: the functions
\* take no lock and test nothing before their first transfer
may_enter(t) == task[t].pc = "idle"

\* a public function is entered by task t
Call(t, fn, color, entry, flag, fcolor) ==
    /\ may_enter(t)
    /\ task' = [task EXCEPT ![t] =
                  [pc |-> entry, fn |-> fn, color |-> color,
                   flag |-> flag, fcolor |-> fcolor, i |-> @.i, x |-> 0, k |-> 0]]
    /\ IF Quiet
       THEN /\ bus' = <<>>
            /\ cur' = [u \in Tasks |->
                         IF u = t THEN [ops |-> << Signature(fn, color) >>, out |-> <<>>]
                         ELSE NoStatement]
            /\ ref' \in {ref} \cup (IF Len(cur[t].ops) = 1 THEN {cur[t]} ELSE {})
       ELSE /\ bus' = bus
            /\ cur' = [cur EXCEPT ![t] =
                         [ops |-> Append(@.ops, Signature(fn, color)), out |-> @.out]]
            /\ ref' = ref
    /\ window' = [window EXCEPT ![t] =
                    CASE fn = "APA102_SOF" -> TRUE
                      [] fn = "APA102_EOF" -> FALSE
                      [] OTHER -> @]
    /\ UNCHANGED config

apa102_init(t) == Call(t, "apa102_init", NoColor, "sof", 0, NoColor)

APA102_SOF(t) == Call(t, "APA102_SOF", NoColor, "sof", 0, NoColor)

APA102_EOF(t) == Call(t, "APA102_EOF", NoColor, "eof", 0, NoColor)

apa102_led(t, color) ==
    Call(t, "apa102_led", color, "frame", led_flag(color), color)

apa102_leds(t, color) == Call(t, "apa102_leds", color, "sof", 0, NoColor)

apa102_led_off(t) ==
    Call(t, "apa102_led_off", NoColor, "frame", led_off_flag, led_off_color)

apa102_leds_off(t) == Call(t, "apa102_leds_off", NoColor, "sof", 0, NoColor)

\* apa102_xof: one iteration of its loop, or the loop's exit and the return
apa102_xof(t) ==
    /\ task[t].pc \in {"sof", "eof"}
    /\ IF xof_continue(task[t].x)
       THEN /\ spi_transfer(t, xof_type(task[t].pc))
            /\ task' = [task EXCEPT ![t].x = (@ + 1) % UCharMod]
       ELSE /\ task' = [task EXCEPT ![t] =
                          IF @.pc = "sof" /\ @.fn # "APA102_SOF"
                          THEN [@ EXCEPT !.pc = "loop", !.i = loop_init(@)]
                          ELSE [@ EXCEPT !.pc = "idle"]]
            /\ UNCHANGED <<bus, cur>>
    /\ UNCHANGED <<config, ref, window>>

\* the for loop of apa102_init, apa102_leds, apa102_leds_off: its test
for_each_led(t) ==
    /\ task[t].pc = "loop"
    /\ task' = [task EXCEPT ![t] =
                  IF led_continue(@.i)
                  THEN [@ EXCEPT !.pc = "frame", !.k = 0,
                                 !.flag = slot_frame(task[t].fn, task[t].color).flag,
                                 !.fcolor = slot_frame(task[t].fn, task[t].color).color]
                  ELSE [@ EXCEPT !.pc = "eof", !.x = 0]]
    /\ UNCHANGED <<config, bus, cur, ref, window>>

\* apa102_frame: its next spi_transfer; after the fourth it returns
apa102_frame(t) ==
    /\ task[t].pc = "frame"
    /\ spi_transfer(t, frame_bytes(task[t].flag, task[t].fcolor)[task[t].k + 1])
    /\ task' = [task EXCEPT ![t] =
                  IF @.k + 1 < FrameBytes
                  THEN [@ EXCEPT !.k = @ + 1]
                  ELSE IF @.fn \in {"apa102_led", "apa102_led_off"}
                       THEN [@ EXCEPT !.pc = "idle"]
                       ELSE [@ EXCEPT !.pc = "loop", !.i = (@ + 1) % UCharMod]]
    /\ UNCHANGED <<config, ref, window>>

Step(t) == apa102_xof(t) \/ for_each_led(t) \/ apa102_frame(t)

\* main of the README: whole-chain calls, single frames, and SOF / N frames / EOF
main(t) ==
    \/ /\ ~window[t]
       /\ \/ apa102_init(t)
          \/ \E c \in palette : apa102_leds(t, c)
          \/ apa102_leds_off(t)
          \/ APA102_SOF(t)
    \/ /\ window[t] => slots(t) < number_of_leds
       /\ \/ \E c \in palette : apa102_led(t, c)
          \/ apa102_led_off(t)
    \/ /\ window[t]
       /\ slots(t) = number_of_leds
       /\ APA102_EOF(t)

Next == main(Main) \/ Step(Main)

Spec == Init /\ [][Next]_vars


----------------------------------------------------------------------------
(* The default build, main passing a color of any intensity 0..255 and the  *)
(* same color with the intensity reduced to its low five bits               *)

IntensityPair(v) == { GFX_RGBA_Color(16, 32, 48, v), GFX_RGBA_Color(16, 32, 48, v % 32) }

InitIntensity ==
    /\ InitConfig({APA102_NUMBER_OF_LEDS}, {APA102_FRAME_SIZE}, {FALSE},
                  { IntensityPair(v) : v \in 0..(UCharMod - 1) })
    /\ InitState

NextIntensity ==
    \/ \E c \in palette : apa102_led(Main, c)
    \/ \E c \in palette : apa102_leds(Main, c)
    \/ Step(Main)

SpecIntensity == InitIntensity /\ [][NextIntensity]_vars

----------------------------------------------------------------------------
(* Two tasks call the whole-chain functions without serialization: their    *)
(* byte transfers interleave on the one bus.  A task calls once per burst   *)
(* of bus activity.                                                         *)

InitTasks ==
    /\ InitConfig({APA102_NUMBER_OF_LEDS}, 1..MaxTaskFrame, {FALSE},
                  { {GFX_RGBA_Color(16, 32, 48, 5)} })
    /\ InitState

task_call(t) ==
    /\ Quiet \/ cur[t].ops = <<>>
    /\ \/ apa102_init(t)
       \/ \E c \in palette : apa102_leds(t, c)
       \/ apa102_leds_off(t)

NextTasks == \E t \in Tasks : task_call(t) \/ Step(t)

SpecTasks == InitTasks /\ [][NextTasks]_vars

----------------------------------------------------------------------------
(* The driver built for a chain as long as the range of the unsigned char   *)
(* loop counter, and for one LED more. The whole-chain functions are called *)
(* one after the other; the run is followed until MaxRecord bytes are on    *)
(* the bus.                                                                 *)

InitWide ==
    /\ InitConfig({UCharMod - 1, UCharMod}, {1}, {FALSE},
                  { {GFX_RGBA_Color(16, 32, 48, 5)} })
    /\ InitState

wide_call(t) ==
    /\ Quiet
    /\ \/ apa102_init(t)
       \/ \E c \in palette : apa102_leds(t, c)
       \/ apa102_leds_off(t)

NextWide == wide_call(Main) \/ (Len(bus) < MaxRecord /\ Step(Main))

SpecWide == InitWide /\ [][NextWide]_vars

----------------------------------------------------------------------------
(* Helpers of the properties *)

\* task t has completed a caller statement and started no other
Completed(t) == task[t].pc = "idle" /\ ~window[t] /\ cur[t].ops # <<>>

\* task t has completed the single call fn(color)
Did(t, fn, color) == Completed(t) /\ cur[t].ops = << Signature(fn, color) >>

Fill(n, v) == [j \in 1..n |-> v]

RECURSIVE Rep(_, _)
Rep(n, s) == IF n = 0 THEN <<>> ELSE s \o Rep(n - 1, s)

ExampleColor == GFX_RGBA_Color(16, 32, 48, 5)

----------------------------------------------------------------------------
(* C1: apa102_leds(color) transmits frame_size start-marker bytes, then     *)
(* number_of_leds frames [0xE0 | (alpha & 0x1F), blue, green, red], then    *)
(* frame_size end-marker bytes, and nothing else; with 3 LEDs, frame size 4 *)
(* and color {0x10,0x20,0x30,0x05}: 4 x 0x00, 3 x [0xE5,0x30,0x20,0x10],    *)
(* 4 x 0xFF.                                                                *)
C1_SetAllStream ==
    \A c \in palette :
        Did(Main, "apa102_leds", c) =>
            /\ cur[Main].out =
                   Fill(frame_size, APA102_SOF_VALUE)
                   \o Rep(number_of_leds, << 224 + (c.alpha % 32), c.blue, c.green, c.red >>)
                   \o Fill(frame_size, APA102_EOF_VALUE)
            /\ bus = cur[Main].out
            /\ (number_of_leds = 3 /\ frame_size = 4 /\ c = ExampleColor) =>
                   bus = << 0, 0, 0, 0, 229, 48, 32, 16, 229, 48, 32, 16,
                            229, 48, 32, 16, 255, 255, 255, 255 >>

C1_Witness ==
    /\ Did(Main, "apa102_leds", ExampleColor)
    /\ number_of_leds = 3
    /\ frame_size = 4

(* C2: apa102_led_off() transmits exactly one frame [flag | 0x01, 0, 0, 0], *)
(* flag = APA102_START_FLAG without power saving (0xE1,0,0,0) and           *)
(* APA102_SLEEP_FLAG with it (0xA1,0,0,0).                                  *)
C2_TurnOffFrame ==
    Did(Main, "apa102_led_off", NoColor) =>
        cur[Main].out = << (IF power_saving THEN 160 ELSE 224) + 1, 0, 0, 0 >>

(* C3: every command frame apa102_init() transmits is                       *)
(* [APA102_ENABLE_FLAG | 0x01, 0, 0, 0] = [0xE1, 0, 0, 0].                  *)
C3_InitFrames ==
    Did(Main, "apa102_init", NoColor) =>
        \A s \in 0..(number_of_leds - 1) :
            SubSeq(cur[Main].out, frame_size + 4 * s + 1, frame_size + 4 * s + 4)
                = << 225, 0, 0, 0 >>

(* C4: apa102_init() transmits exactly 2*frame_size + 4*number_of_leds      *)
(* bytes: frame_size start-marker bytes, 4 bytes for each slot, frame_size  *)
(* end-marker bytes.                                                        *)
C4_InitLength ==
    Did(Main, "apa102_init", NoColor) =>
        LET out == cur[Main].out IN
        /\ Len(out) = 2 * frame_size + 4 * number_of_leds
        /\ \A j \in 1..frame_size : out[j] = APA102_SOF_VALUE
        /\ \A j \in 1..frame_size :
               out[frame_size + 4 * number_of_leds + j] = APA102_EOF_VALUE
        /\ \A s \in 0..(number_of_leds - 1) : \A k \in 1..4 :
               out[frame_size + 4 * s + k] = out[frame_size + k]
        /\ bus = out

C4_Witness ==
    /\ Did(Main, "apa102_init", NoColor)
    /\ number_of_leds > 1
    /\ frame_size # APA102_FRAME_SIZE


(* C5: byte 0 of a command frame depends only on the masked intensity: two  *)
(* colors that differ only in intensity bits above the mask give identical  *)
(* streams from apa102_led and from apa102_leds, and byte 0 of each frame   *)
(* carries the flag and the intensity's low five bits.                      *)
SameButHighIntensity(c, d) ==
    /\ c.red = d.red /\ c.green = d.green /\ c.blue = d.blue
    /\ c.alpha % 32 = d.alpha % 32

C5_IntensityMasked ==
    \A fn \in {"apa102_led", "apa102_leds"} : \A c \in palette :
        Did(Main, fn, c) =>
            /\ fn = "apa102_led" => cur[Main].out[1] = 224 + (c.alpha % 32)
            /\ fn = "apa102_leds" =>
                   \A n \in 0..(number_of_leds - 1) :
                       cur[Main].out[frame_size + 4 * n + 1] = 224 + (c.alpha % 32)
            /\ \A d \in palette :
                   (ref.ops = << Signature(fn, d) >> /\ SameButHighIntensity(c, d))
                   => cur[Main].out = ref.out

C5_Witness ==
    \E c, d \in palette :
        /\ Did(Main, "apa102_leds", c)
        /\ ref.ops = << Signature("apa102_leds", d) >>
        /\ c.alpha = 197
        /\ d.alpha = 5


(* C6: APA102_SOF(); N x apa102_led(color); APA102_EOF() puts the same      *)
(* bytes on the bus as one apa102_leds(color).                              *)
ManualSetAll(c) ==
    << Signature("APA102_SOF", NoColor) >>
    \o Rep(number_of_leds, << Signature("apa102_led", c) >>)
    \o << Signature("APA102_EOF", NoColor) >>

C6_Composable ==
    \A c \in palette :
        (/\ Completed(Main)
         /\ cur[Main].ops = ManualSetAll(c)
         /\ ref.ops = << Signature("apa102_leds", c) >>)
        => (cur[Main].out = ref.out /\ bus = ref.out)

C6_Witness ==
    /\ Completed(Main)
    /\ cur[Main].ops = ManualSetAll(ExampleColor)
    /\ ref.ops = << Signature("apa102_leds", ExampleColor) >>
    /\ number_of_leds = 3

(* C7: the driver keeps no state between calls: a call puts the same bytes  *)
(* on the bus as the same call with the same argument did earlier, whatever *)
(* ran in between and whether or not apa102_init was called before.         *)
C7_Stateless ==
    (Completed(Main) /\ Len(cur[Main].ops) = 1 /\ ref.ops = cur[Main].ops)
    => (cur[Main].out = ref.out /\ bus = ref.out)

C7_Witness ==
    /\ Did(Main, "apa102_leds", ExampleColor)
    /\ ref.ops = cur[Main].ops
    /\ number_of_leds = 2

----------------------------------------------------------------------------
\* out is one start delimiter, n command frames, one end delimiter
Delimited(out, n) ==
    /\ Len(out) = 2 * frame_size + 4 * n
    /\ SubSeq(out, 1, frame_size) = Fill(frame_size, APA102_SOF_VALUE)
    /\ SubSeq(out, frame_size + 4 * n + 1, Len(out)) = Fill(frame_size, APA102_EOF_VALUE)
    /\ \A s \in 0..(n - 1) : out[frame_size + 4 * s + 1] >= 128

WholeChain == {"apa102_init", "apa102_leds", "apa102_leds_off"}
SingleFrame == {"apa102_led", "apa102_led_off"}

\* the single public call that statement st consists of
OnlyCall(st) == st.ops[1].fn

(* C8 as claimed: every transmission of a public operation (init, setOne,   *)
(* setAll, turnOff, turnAllOff) is one start delimiter, 1 or N command      *)
(* frames, one end delimiter.                                               *)
C8_AllDelimited ==
    (Completed(Main) /\ Len(cur[Main].ops) = 1
       /\ OnlyCall(cur[Main]) \in WholeChain \cup SingleFrame)
    => \/ Delimited(cur[Main].out, 1)
       \/ Delimited(cur[Main].out, number_of_leds)

(* C8 amended: apa102_init, apa102_leds and apa102_leds_off each transmit   *)
(* one start delimiter, N command frames, one end delimiter; apa102_led and *)
(* apa102_led_off each transmit one command frame and no delimiter.         *)
C8_Transmissions ==
    (Completed(Main) /\ Len(cur[Main].ops) = 1) =>
        /\ OnlyCall(cur[Main]) \in WholeChain
               => Delimited(cur[Main].out, number_of_leds)
        /\ OnlyCall(cur[Main]) \in SingleFrame
               => (Len(cur[Main].out) = 4 /\ cur[Main].out[1] >= 128)

C8_Witness ==
    /\ Did(Main, "apa102_led", ExampleColor)
    /\ Len(ref.ops) = 1
    /\ OnlyCall(ref) = "apa102_leds_off"
    /\ Len(bus) = 4

----------------------------------------------------------------------------
\* task t has just sent byte 0 of a command frame
SentByte0(t) == task[t].pc = "frame" /\ task[t].k = 1

Byte0(t) == cur[t].out[Len(cur[t].out)]

(* C9 as claimed: byte 0 of every command frame has its top three bits set  *)
(* and differs from the start marker and from the end marker.               *)
C9_TopBitsSet ==
    SentByte0(Main) =>
        /\ Byte0(Main) \div 32 = 7
        /\ Byte0(Main) # APA102_SOF_VALUE
        /\ Byte0(Main) # APA102_EOF_VALUE

(* C9 amended: byte 0 of every command frame has bits 7 and 5 set and so    *)
(* differs from the start marker 0x00; its top three bits are 111, except   *)
(* in the frames of apa102_led_off / apa102_leds_off with power saving,     *)
(* where they are 101 (APA102_SLEEP_FLAG); it equals the end marker 0xFF    *)
(* exactly when apa102_led / apa102_leds is given an intensity whose low    *)
(* five bits are all set.                                                   *)
C9_CommandByte ==
    SentByte0(Main) =>
        LET b == Byte0(Main)
            off == task[Main].fn \in {"apa102_led_off", "apa102_leds_off"}
        IN  /\ b \div 128 = 1
            /\ (b \div 32) % 2 = 1
            /\ b # APA102_SOF_VALUE
            /\ b \div 32 = (IF off /\ power_saving THEN 5 ELSE 7)
            /\ (b = APA102_EOF_VALUE) <=>
                   (/\ task[Main].fn \in {"apa102_led", "apa102_leds"}
                    /\ task[Main].color.alpha % 32 = 31)

C9_Witness ==
    /\ SentByte0(Main)
    /\ task[Main].fn = "apa102_leds_off"
    /\ power_saving
    /\ Byte0(Main) \div 32 = 5


----------------------------------------------------------------------------
\* task t has sent its whole start delimiter and none of its end delimiter
InWindow(t) ==
    /\ task[t].fn \in WholeChain
    /\ task[t].pc \in {"loop", "frame"}

(* C10: the driver does no locking: while one task is inside a whole-chain  *)
(* call another task can enter apa102_leds, and the bytes of both go to the *)
(* bus as they come; a state with two overlapping start/end windows is      *)
(* reachable.                                                               *)
C10_NoLocking ==
    \A t, u \in Tasks :
        (t # u /\ task[t].pc # "idle" /\ task[u].pc = "idle") =>
            /\ \A c \in palette : ENABLED apa102_leds(u, c)
            /\ Len(bus) = Len(cur[t].out) + Len(cur[u].out)

C10_Witness ==
    /\ InWindow(1)
    /\ InWindow(2)
    /\ Len(bus) = 2 * frame_size
    /\ bus = Fill(2 * frame_size, APA102_SOF_VALUE)

----------------------------------------------------------------------------
\* main has completed SOF / one call per slot / EOF
ManualDone(t) ==
    /\ Completed(t)
    /\ Len(cur[t].ops) = number_of_leds + 2
    /\ cur[t].ops[1].fn = "APA102_SOF"

(* C11: APA102_SOF() transmits exactly frame_size bytes, each the start     *)
(* marker; APA102_EOF() transmits exactly frame_size bytes, each the end    *)
(* marker; the delimiters of apa102_init, apa102_leds and apa102_leds_off   *)
(* have that same length for every number of LEDs.                          *)
C11_Delimiters ==
    /\ (window[Main] /\ task[Main].pc = "idle" /\ Len(cur[Main].ops) = 1) =>
           (cur[Main].out = Fill(frame_size, APA102_SOF_VALUE) /\ bus = cur[Main].out)
    /\ (task[Main].fn = "APA102_EOF" /\ task[Main].pc = "eof") =>
           Len(cur[Main].out) = frame_size + 4 * number_of_leds + task[Main].x
    /\ ManualDone(Main) =>
           /\ Len(cur[Main].out) = 2 * frame_size + 4 * number_of_leds
           /\ SubSeq(cur[Main].out, frame_size + 4 * number_of_leds + 1, Len(cur[Main].out))
                  = Fill(frame_size, APA102_EOF_VALUE)
    /\ (Completed(Main) /\ Len(cur[Main].ops) = 1 /\ OnlyCall(cur[Main]) \in WholeChain) =>
           /\ Len(cur[Main].out) - 4 * number_of_leds = 2 * frame_size
           /\ \A j \in 1..frame_size :
                  /\ cur[Main].out[j] = APA102_SOF_VALUE
                  /\ cur[Main].out[Len(cur[Main].out) + 1 - j] = APA102_EOF_VALUE

C11_Witness ==
    /\ ManualDone(Main)
    /\ number_of_leds = 3
    /\ frame_size = 2

(* C12: apa102_leds_off() transmits one start delimiter, N frames each the  *)
(* frame apa102_led_off() transmits, one end delimiter: the bytes of        *)
(* APA102_SOF(); N x apa102_led_off(); APA102_EOF().                        *)
ManualAllOff ==
    << Signature("APA102_SOF", NoColor) >>
    \o Rep(number_of_leds, << Signature("apa102_led_off", NoColor) >>)
    \o << Signature("APA102_EOF", NoColor) >>

C12_AllOff ==
    /\ (Did(Main, "apa102_leds_off", NoColor)
          /\ ref.ops = << Signature("apa102_led_off", NoColor) >>) =>
           cur[Main].out = Fill(frame_size, APA102_SOF_VALUE)
                           \o Rep(number_of_leds, ref.out)
                           \o Fill(frame_size, APA102_EOF_VALUE)
    /\ (Completed(Main) /\ cur[Main].ops = ManualAllOff
          /\ ref.ops = << Signature("apa102_leds_off", NoColor) >>) =>
           (cur[Main].out = ref.out /\ bus = ref.out)

C12_Witness ==
    /\ Completed(Main)
    /\ cur[Main].ops = ManualAllOff
    /\ ref.ops = << Signature("apa102_leds_off", NoColor) >>
    /\ number_of_leds = 3
    /\ power_saving

----------------------------------------------------------------------------
\* bit p of byte v, and the bitwise OR of two bytes spelt out bit by bit
Bit(v, p) == (v \div (2 ^ p)) % 2

OrBit(a, b, p) == IF Bit(a, p) + Bit(b, p) > 0 THEN 2 ^ p ELSE 0

Or8(a, b) ==
    OrBit(a, b, 0) + OrBit(a, b, 1) + OrBit(a, b, 2) + OrBit(a, b, 3)
    + OrBit(a, b, 4) + OrBit(a, b, 5) + OrBit(a, b, 6) + OrBit(a, b, 7)

\* the four bytes the frame layout prescribes for the arguments of the
\* apa102_frame call task t made last
Layout(t) ==
    << Or8(task[t].flag, task[t].fcolor.alpha % 32),
       task[t].fcolor.blue, task[t].fcolor.green, task[t].fcolor.red >>

\* the last n bytes task t has sent in its statement
LastSent(t, n) == SubSeq(cur[t].out, Len(cur[t].out) + 1 - n, Len(cur[t].out))

(* C13: for its flag byte and color, apa102_frame transmits exactly four    *)
(* bytes: flag | (alpha & 0x1F), blue, green, red, and no byte before,      *)
(* between or after them.                                                   *)
C13_Layout ==
    /\ task[Main].pc = "frame" =>
           /\ task[Main].k <= 3
           /\ task[Main].k <= Len(cur[Main].out)
           /\ LastSent(Main, task[Main].k) = SubSeq(Layout(Main), 1, task[Main].k)
    /\ (task[Main].pc = "loop" /\ task[Main].i >= 1) =>
           /\ LastSent(Main, 4) = Layout(Main)
           /\ Len(cur[Main].out) = frame_size + 4 * task[Main].i
    /\ (task[Main].pc = "frame" /\ task[Main].fn \in WholeChain) =>
           Len(cur[Main].out) = frame_size + 4 * task[Main].i + task[Main].k
    /\ (task[Main].pc = "idle" /\ task[Main].fn \in SingleFrame) =>
           /\ LastSent(Main, 4) = Layout(Main)
           /\ Len(cur[Main].out) =
                  (IF window[Main] THEN frame_size ELSE 0) + 4 * slots(Main)
                  + (IF window[Main] THEN 0 ELSE 4)

C13_Witness ==
    /\ task[Main].pc = "idle"
    /\ task[Main].fn = "apa102_led"
    /\ task[Main].fcolor = ExampleColor
    /\ task[Main].flag = 229
    /\ LastSent(Main, 4) = << 229, 48, 32, 16 >>

(* C14: APA102_FRAME_SIZE is the size of the start and stop frames and of   *)
(* the data frames: every delimiter and every command frame is frame_size   *)
(* bytes long.                                                              *)
C14_FrameSize ==
    /\ (Completed(Main) /\ Len(cur[Main].ops) = 1 /\ OnlyCall(cur[Main]) \in WholeChain) =>
           Len(cur[Main].out) = frame_size * (number_of_leds + 2)
    /\ (Completed(Main) /\ Len(cur[Main].ops) = 1 /\ OnlyCall(cur[Main]) \in SingleFrame) =>
           Len(cur[Main].out) = frame_size

----------------------------------------------------------------------------
(* C15: for every number of LEDs and every frame size, apa102_init,         *)
(* apa102_leds and apa102_leds_off return after their per-LED loop has run  *)
(* exactly N times, and apa102_xof returns after exactly frame_size         *)
(* transfers: no loop runs more often than its bound, and a completed call  *)
(* has sent 2 * frame_size + 4 * N bytes.                                   *)
C15_LoopsBounded ==
    /\ task[Main].pc \in {"sof", "eof"} => task[Main].x <= frame_size
    /\ (task[Main].fn \in WholeChain /\ task[Main].pc \in {"loop", "frame"}) =>
           Len(cur[Main].out) <= frame_size + 4 * number_of_leds
    /\ (Completed(Main) /\ OnlyCall(cur[Main]) \in WholeChain) =>
           Len(cur[Main].out) = 2 * frame_size + 4 * number_of_leds

----------------------------------------------------------------------------
\* the statement st is one call of apa102_init, apa102_leds or apa102_leds_off
WholeChainCall(st) == Len(st.ops) = 1 /\ OnlyCall(st) \in WholeChain

(* C16: serialized calls of apa102_init, apa102_leds and apa102_leds_off    *)
(* put complete transactions on the bus: at every moment the bytes of the   *)
(* running call are a prefix of start delimiter, N command frames, end      *)
(* delimiter; a command frame is sent only after the whole start delimiter  *)
(* and before any end byte, the end delimiter only after exactly N frames,  *)
(* and a call returns, letting the next one start, only when its            *)
(* transaction is complete.                                                 *)
C16_Transactions ==
    /\ WholeChainCall(cur[Main]) =>
           /\ bus = cur[Main].out
           /\ Len(bus) <= 2 * frame_size + 4 * number_of_leds
           /\ \A j \in 1..Len(bus) :
                  /\ j <= frame_size => bus[j] = APA102_SOF_VALUE
                  /\ (j > frame_size /\ j <= frame_size + 4 * number_of_leds
                        /\ (j - frame_size) % 4 = 1) => bus[j] >= 128
                  /\ j > frame_size + 4 * number_of_leds => bus[j] = APA102_EOF_VALUE
           /\ task[Main].pc = "sof" => Len(bus) <= frame_size
           /\ task[Main].pc = "frame" =>
                  (Len(bus) >= frame_size /\ Len(bus) < frame_size + 4 * number_of_leds)
           /\ task[Main].pc = "eof" => Len(bus) >= frame_size + 4 * number_of_leds
           /\ task[Main].pc = "idle" => Len(bus) = 2 * frame_size + 4 * number_of_leds
    /\ WholeChainCall(ref) => Delimited(ref.out, number_of_leds)

C16_Witness ==
    /\ Completed(Main)
    /\ WholeChainCall(cur[Main])
    /\ WholeChainCall(ref)
    /\ OnlyCall(ref) # OnlyCall(cur[Main])
    /\ number_of_leds = 3

(* C17: apa102_led and apa102_led_off each put exactly 4 bytes on the bus   *)
(* and never send a delimiter byte themselves: alone they send the command  *)
(* frame and nothing else, inside a caller's window they add 4 bytes.       *)
C17_FourBytes ==
    /\ task[Main].fn \in SingleFrame => task[Main].pc \in {"frame", "idle"}
    /\ (task[Main].fn \in SingleFrame /\ task[Main].pc = "frame") =>
           Len(cur[Main].out) =
               (IF window[Main] THEN frame_size + 4 * (slots(Main) - 1) ELSE 0)
               + task[Main].k
    /\ \A c \in palette :
           Did(Main, "apa102_led", c) =>
               /\ cur[Main].out = << 224 + (c.alpha % 32), c.blue, c.green, c.red >>
               /\ bus = cur[Main].out
    /\ Did(Main, "apa102_led_off", NoColor) =>
           /\ Len(cur[Main].out) = 4
           /\ cur[Main].out[1] >= 128
           /\ bus = cur[Main].out

C17_Witness ==
    /\ Did(Main, "apa102_led_off", NoColor)
    /\ ref.ops = << Signature("apa102_led", ExampleColor) >>
    /\ Len(ref.out) = 4
    /\ Len(bus) = 4

\* the command frame of slot k of the statement task t is composing
SlotFrame(t, k) ==
    SubSeq(cur[t].out, frame_size + 4 * (k - 1) + 1, frame_size + 4 * k)

\* slot k carries the frame of the k-th call made inside the window
InCallOrder(t, k) ==
    LET op == cur[t].ops[k + 1]
    IN /\ op.fn \in SingleFrame
       /\ op.fn = "apa102_led" =>
              SlotFrame(t, k) = << 224 + (op.color.alpha % 32),
                                   op.color.blue, op.color.green, op.color.red >>
       /\ op.fn = "apa102_led_off" =>
              SlotFrame(t, k)[1] = (IF power_saving THEN 160 ELSE 224)
       /\ ref.ops = << op >> => SlotFrame(t, k) = ref.out

(* C18: in APA102_SOF(); op_1; ...; op_N; APA102_EOF() with each op_k one   *)
(* of apa102_led(c_k) and apa102_led_off(), the bus carries the start       *)
(* delimiter, then N command frames in call order, the k-th being the frame *)
(* of op_k, then the end delimiter.                                         *)
C18_Composed ==
    /\ (window[Main] /\ task[Main].pc = "idle") =>
           /\ Len(cur[Main].out) = frame_size + 4 * slots(Main)
           /\ SubSeq(cur[Main].out, 1, frame_size) = Fill(frame_size, APA102_SOF_VALUE)
           /\ \A k \in 1..slots(Main) : InCallOrder(Main, k)
    /\ ManualDone(Main) =>
           /\ bus = cur[Main].out
           /\ Len(bus) = 2 * frame_size + 4 * number_of_leds
           /\ SubSeq(bus, 1, frame_size) = Fill(frame_size, APA102_SOF_VALUE)
           /\ \A k \in 1..number_of_leds : InCallOrder(Main, k)
           /\ SubSeq(bus, frame_size + 4 * number_of_leds + 1, Len(bus))
                  = Fill(frame_size, APA102_EOF_VALUE)
           /\ cur[Main].ops[number_of_leds + 2].fn = "APA102_EOF"

C18_Witness ==
    /\ ManualDone(Main)
    /\ number_of_leds = 3
    /\ cur[Main].ops[2] = Signature("apa102_led", ExampleColor)
    /\ cur[Main].ops[3].fn = "apa102_led_off"
    /\ cur[Main].ops[4] = Signature("apa102_led", GFX_RGBA_Color(15, 240, 255, 31))
    /\ ref.ops = << cur[Main].ops[3] >>

====
